---------------------------- MODULE Spec2Model ----------------------------
(***************************************************************************)
(* Time-series acquisition pipeline of TimeBasedStrategyGenerator          *)
(* (src/strategy.py): request parameters, provider response validation,    *)
(* DataFrame construction, column renaming, windowing, and the hand-off to *)
(* the LLM call in generate_strategy.                                      *)
(*                                                                         *)
(* Encodings.  A provider value is a JSON string, modelled as a record     *)
(* [kind, v]: kind "num" is a decimal text that float() parses to v, kind  *)
(* "text" is a text float() rejects.  A series key is the provider's       *)
(* timestamp string, modelled as [date, time] (day ordinal, minute of the  *)
(* day); pd.to_datetime turns it into an instant counted in minutes.  A    *)
(* DataFrame is [columns, index, data] with data[i][j] the cell of row i   *)
(* in column j.                                                            *)
(***************************************************************************)
EXTENDS Integers, Sequences, FiniteSets, TLC

VARIABLES
    pc,          \* position of the call: "idle", "http", "llm", "done"
    entry,       \* the method the caller invoked
    ticker,      \* argument ticker
    timeframe,   \* argument timeframe
    request,     \* query parameters of the GET sent to the provider
    data_key,    \* the envelope key the fetch looks for
    httpCalls,   \* number of requests.get calls made
    llmCalls,    \* number of httpx post calls made
    response,    \* what the provider answered
    fetched,     \* what _fetch_alpha_vantage_data returned
    timeframe_description, \* the description of the data handed to the LLM
    printed,     \* messages printed by the call, in order
    result,      \* what the invoked method returned
    calls,       \* number of calls the callers have made
    parked,      \* the locals of a second call in flight, while it does not run
    argument,    \* the arguments given to FinancialSonarAnalyzer.strategy
    analyzer_result, \* what the analyzer method returned to the endpoint
    reply,       \* the HTTP reply of the endpoint
    history      \* what each fetch so far failed for and what it returned

vars == << pc, entry, ticker, timeframe, request, data_key, httpCalls, llmCalls,
           response, fetched, timeframe_description, printed, result, calls,
           parked, argument, analyzer_result, reply, history >>

---------------------------------------------------------------------------
(* Bounds of the model *)

\* calls the caller makes one after the other
MaxCalls == 2
\* calendar dates in a 5-minute series
MaxDays == 3
\* entries per calendar date in a 5-minute series
PerDay == 2
\* largest number of entries in a daily series
MaxDaily == 9
\* largest number of entries in a monthly series
MaxMonthly == 30
\* largest number of entries in a body that also carries an Error Message or
\* a Note, and in the body of an error-status response
SmallEntries == 2

---------------------------------------------------------------------------
(* Program constants *)

\* df.tail(7)
WeeklyWindow == 7
\* df.tail(24)
MonthlyWindow == 24
\* minutes in a day: Timestamp.date() drops the minute of the day
MinutesPerDay == 1440
\* days reserved per month by the day ordinal: strftime('%Y-%m') drops the day
DaysPerMonth == 31
\* the float NaN that from_dict fills a missing cell with
NaN == -1

ALPHA_VANTAGE_BASE_URL == "https://www.alphavantage.co/query"
alpha_vantage_api_key == "AVKEY"

Timeframes == {"intraday", "weekly", "monthly"}

data_key_map ==
    [tf \in Timeframes |->
        CASE tf = "intraday" -> "Time Series (5min)"
          [] tf = "weekly"   -> "Time Series (Daily)"
          [] tf = "monthly"  -> "Monthly Adjusted Time Series"]

---------------------------------------------------------------------------
(* Request parameters: _fetch_alpha_vantage_data, lines 19-43 *)

NoParams == [k \in {} |-> ""]

\* ResolveParams with the else branch falling through to the monthly request
ResolveParams_DefaultMonthly(tk, tf) ==
    LET base == ("symbol" :> tk) @@ ("apikey" :> alpha_vantage_api_key)
    IN  IF tf = "intraday"
        THEN [ok |-> TRUE,
              params |-> base @@ ("function" :> "TIME_SERIES_INTRADAY")
                              @@ ("interval" :> "5min")
                              @@ ("outputsize" :> "full"),
              data_key |-> data_key_map["intraday"]]
        ELSE IF tf = "weekly"
        THEN [ok |-> TRUE,
              params |-> base @@ ("function" :> "TIME_SERIES_DAILY_ADJUSTED")
                              @@ ("outputsize" :> "compact"),
              data_key |-> data_key_map["weekly"]]
        ELSE [ok |-> TRUE,
              params |-> base @@ ("function" :> "TIME_SERIES_MONTHLY_ADJUSTED"),
              data_key |-> data_key_map["monthly"]]

\* ResolveParams with the weekly request asking for outputsize full
ResolveParams_WeeklyFull(tk, tf) ==
    LET base == ("symbol" :> tk) @@ ("apikey" :> alpha_vantage_api_key)
    IN  IF tf = "intraday"
        THEN [ok |-> TRUE,
              params |-> base @@ ("function" :> "TIME_SERIES_INTRADAY")
                              @@ ("interval" :> "5min")
                              @@ ("outputsize" :> "full"),
              data_key |-> data_key_map["intraday"]]
        ELSE IF tf = "weekly"
        THEN [ok |-> TRUE,
              params |-> base @@ ("function" :> "TIME_SERIES_DAILY_ADJUSTED")
                              @@ ("outputsize" :> "full"),
              data_key |-> data_key_map["weekly"]]
        ELSE IF tf = "monthly"
        THEN [ok |-> TRUE,
              params |-> base @@ ("function" :> "TIME_SERIES_MONTHLY_ADJUSTED"),
              data_key |-> data_key_map["monthly"]]
        ELSE [ok |-> FALSE, params |-> NoParams, data_key |-> ""]

\* the params dict and data_key for a timeframe; ok is FALSE on the else branch
ResolveParams(tk, tf) ==
    LET base == ("symbol" :> tk) @@ ("apikey" :> alpha_vantage_api_key)
    IN  IF tf = "intraday"
        THEN [ok |-> TRUE,
              params |-> base @@ ("function" :> "TIME_SERIES_INTRADAY")
                              @@ ("interval" :> "5min")
                              @@ ("outputsize" :> "full"),
              data_key |-> data_key_map["intraday"]]
        ELSE IF tf = "weekly"
        THEN [ok |-> TRUE,
              params |-> base @@ ("function" :> "TIME_SERIES_DAILY_ADJUSTED")
                              @@ ("outputsize" :> "compact"),
              data_key |-> data_key_map["weekly"]]
        ELSE IF tf = "monthly"
        THEN [ok |-> TRUE,
              params |-> base @@ ("function" :> "TIME_SERIES_MONTHLY_ADJUSTED"),
              data_key |-> data_key_map["monthly"]]
        ELSE [ok |-> FALSE, params |-> NoParams, data_key |-> ""]

\* generate_strategy, lines 212-213
valid_timeframes == << "intraday", "weekly", "monthly" >>

TimeframeAccepted(tf) == \E i \in DOMAIN valid_timeframes : valid_timeframes[i] = tf

---------------------------------------------------------------------------
(* DataFrame operations used by _fetch_alpha_vantage_data, lines 63-111 *)

\* every field label the provider uses, in the order of its numbering
AllLabels == << "1. open", "2. high", "3. low", "4. close", "5. volume",
                "5. adjusted close", "6. volume", "7. dividend amount",
                "8. split coefficient" >>

EmptyDF == [columns |-> << >>, index |-> << >>, data |-> << >>]

\* DataFrame.empty: some axis has length 0
IsEmpty(df) == Len(df.index) = 0 \/ Len(df.columns) = 0

HasColumn(df, c) == \E j \in DOMAIN df.columns : df.columns[j] = c

ColumnOf(df, c) == CHOOSE j \in DOMAIN df.columns : df.columns[j] = c

\* pd.DataFrame.from_dict(series, orient='index'): one row per entry in the
\* listed order, one column per label that occurs, a missing cell is NaN
FromDict(series) ==
    LET Occurs(l) == \E i \in DOMAIN series : l \in DOMAIN series[i].fields
        cols == SelectSeq(AllLabels, Occurs)
    IN  [columns |-> cols,
         index   |-> [i \in DOMAIN series |-> series[i].key],
         data    |-> [i \in DOMAIN series |->
                        [j \in DOMAIN cols |->
                            IF cols[j] \in DOMAIN series[i].fields
                            THEN series[i].fields[cols[j]]
                            ELSE [kind |-> "nan", v |-> 0]]]]

\* float() of one cell
ParseFloat(cell) == IF cell.kind = "num" THEN cell.v ELSE NaN

\* astype that coerces what is no number to NaN and never raises
AsTypeRaises_Never(df) == FALSE

\* df.astype(float) raises ValueError when some cell is not a number text
AsTypeRaises(df) ==
    \E i \in DOMAIN df.data : \E j \in DOMAIN df.columns : df.data[i][j].kind = "text"

AsTypeFloat(df) ==
    [df EXCEPT !.data = [i \in DOMAIN df.data |->
                            [j \in DOMAIN df.columns |-> ParseFloat(df.data[i][j])]]]

\* pd.to_datetime of one key
ToDatetime(key) == key.date * MinutesPerDay + key.time

ToDatetimeIndex(df) ==
    [df EXCEPT !.index = [i \in DOMAIN df.index |-> ToDatetime(df.index[i])]]

\* Timestamp.date()
DateOf(ts) == ts \div MinutesPerDay

\* rows of df at the positions pos, in that order
TakeRows(df, pos) ==
    [df EXCEPT !.index = [p \in DOMAIN pos |-> df.index[pos[p]]],
               !.data  = [p \in DOMAIN pos |-> df.data[pos[p]]]]

\* the rows left in the order of the provider's listing
SortIndex_Unsorted(df) == df

\* df.sort_index(ascending=True): stable ascending order of the index
SortIndex(df) ==
    LET n == Len(df.index)
        Before(j, i) == \/ df.index[j] < df.index[i]
                        \/ df.index[j] = df.index[i] /\ j < i
        Rank(i) == 1 + Cardinality({j \in 1..n : Before(j, i)})
    IN  TakeRows(df, [p \in 1..n |-> CHOOSE i \in 1..n : Rank(i) = p])

\* df.rename(columns=mapping)
Rename(df, mapping) ==
    [df EXCEPT !.columns = [j \in DOMAIN df.columns |->
                               IF df.columns[j] \in DOMAIN mapping
                               THEN mapping[df.columns[j]]
                               ELSE df.columns[j]]]

\* the rename mapping of each branch, lines 69-82
RenameMap(tf) ==
    LET common == ("1. open" :> "open") @@ ("2. high" :> "high")
                  @@ ("3. low" :> "low") @@ ("4. close" :> "close")
    IN  IF tf = "monthly" THEN common @@ ("6. volume" :> "volume")
                          ELSE common @@ ("5. volume" :> "volume")

OHLCV == << "open", "high", "low", "close", "volume" >>

\* df[[...]] raises KeyError when a wanted column is missing
SelectRaises(df, wanted) == \E k \in DOMAIN wanted : ~HasColumn(df, wanted[k])

SelectColumns(df, wanted) ==
    [df EXCEPT !.columns = wanted,
               !.data = [i \in DOMAIN df.data |->
                            [k \in DOMAIN wanted |-> df.data[i][ColumnOf(df, wanted[k])]]]]

\* the first n rows where the last n are meant
DfTail_Head(df, n) ==
    LET len == Len(df.index)
    IN  TakeRows(df, [p \in 1..(IF len > n THEN n ELSE len) |-> p])

\* the window one row too early: the latest row is left out
DfTail_SkipLast(df, n) ==
    LET len == Len(df.index)
        from == IF len > n THEN len - n - 1 ELSE 0
        rows == IF len > n THEN n ELSE len - 1
    IN  TakeRows(df, [p \in 1..(IF rows < 1 THEN len ELSE rows) |-> from + p])

\* df.tail(n)
DfTail(df, n) ==
    LET len == Len(df.index)
        from == IF len > n THEN len - n ELSE 0
    IN  TakeRows(df, [p \in 1..(len - from) |-> from + p])

\* df.index.max() and df.index.min()
IndexMax(df) == CHOOSE t \in {df.index[i] : i \in DOMAIN df.index} :
                    \A i \in DOMAIN df.index : df.index[i] <= t
IndexMin(df) == CHOOSE t \in {df.index[i] : i \in DOMAIN df.index} :
                    \A i \in DOMAIN df.index : df.index[i] >= t

\* df[df.index.date == day]
FilterDate(df, day) ==
    LET OnDay(i) == DateOf(df.index[i]) = day
        keep == SelectSeq([i \in DOMAIN df.index |-> i], OnDay)
    IN  TakeRows(df, keep)

---------------------------------------------------------------------------
(* _fetch_alpha_vantage_data after the GET returned a JSON body, lines 48-123 *)

Success(df, msgs) == [ret |-> "df", df |-> df, printed |-> msgs]

\* a failure that hands back an empty frame where None is meant
Failure_EmptyFrame(msgs) == [ret |-> "df", df |-> EmptyDF, printed |-> msgs]

Failure(msgs) == [ret |-> "None", df |-> EmptyDF, printed |-> msgs]


\* lines 53-54: the rate-limit Note is printed and nothing else
NoteInfo(body) ==
    IF body.note = "ratelimit" THEN << "Alpha Vantage API Info" >> ELSE << >>

\* lines 63-66
BuildTable(series) == SortIndex(ToDatetimeIndex(AsTypeFloat(FromDict(series))))

\* the window taken on the day of the first row where the latest is meant
WindowIntraday_FirstDay(df, info) ==
    IF IsEmpty(df)
    THEN Failure(info \o << "No intraday data found." >>)
    ELSE LET latest_day == DateOf(df.index[1])
             day == FilterDate(df, latest_day)
         IN  IF IsEmpty(day)
             THEN Failure(info \o << "No intraday data found for the latest day" >>)
             ELSE Success(day, info \o << "Fetched intraday data" >>)

\* lines 86-95
WindowIntraday(df, info) ==
    IF IsEmpty(df)
    THEN Failure(info \o << "No intraday data found." >>)
    ELSE LET latest_day == DateOf(IndexMax(df))
             day == FilterDate(df, latest_day)
         IN  IF IsEmpty(day)
             THEN Failure(info \o << "No intraday data found for the latest day" >>)
             ELSE Success(day, info \o << "Fetched intraday data" >>)

\* fewer than 7 rows taken as a failure where the rows at hand are meant
WindowWeekly_FailShort(df, info) ==
    IF Len(df.index) < WeeklyWindow
    THEN Failure(info \o << "Not enough daily data" >>)
    ELSE Success(DfTail(df, WeeklyWindow), info \o << "Fetched last 7 trading days" >>)

\* lines 97-102
WindowWeekly(df, info) ==
    LET short == IF Len(df.index) < WeeklyWindow
                 THEN << "Not enough daily data" >> ELSE << >>
    IN  IF Len(df.index) < WeeklyWindow /\ IsEmpty(df)
        THEN Failure(info \o short)
        ELSE Success(DfTail(df, WeeklyWindow),
                     info \o short \o << "Fetched last 7 trading days" >>)

\* lines 104-111
WindowMonthly(df, info) ==
    LET last == DfTail(df, MonthlyWindow)
    IN  IF IsEmpty(last)
        THEN Failure(info \o << "No monthly data found" >>)
        ELSE Success(last, info \o << "Fetched last months" >>)

\* lines 68-113, the KeyError of line 76 caught at lines 121-123
RenameAndWindow(tf, sorted, info) ==
    LET renamed == Rename(sorted, RenameMap(tf))
    IN  IF tf = "monthly"
        THEN IF SelectRaises(renamed, OHLCV)
             THEN Failure(info \o << "Error parsing Alpha Vantage JSON response (KeyError)" >>)
             ELSE WindowMonthly(SelectColumns(renamed, OHLCV), info)
        ELSE IF tf = "intraday"
        THEN WindowIntraday(renamed, info)
        ELSE WindowWeekly(renamed, info)

\* the envelope looked for before the Error Message
ParseResponse_KeyFirst(tf, key, body) ==
    LET info == NoteInfo(body)
    IN  IF key \in DOMAIN body.series
        THEN IF AsTypeRaises(FromDict(body.series[key]))
             THEN Failure(info \o << "Error processing data" >>)
             ELSE RenameAndWindow(tf, BuildTable(body.series[key]), info)
        ELSE IF body.errorMessage
        THEN Failure(<< "Alpha Vantage API Error" >>)
        ELSE Failure(info \o << "Error: Unexpected response structure", "Full response:" >>)

\* the envelope of any timeframe taken when the expected one is missing
ParseResponse_AnyKey(tf, key, body) ==
    IF body.errorMessage
    THEN Failure(<< "Alpha Vantage API Error" >>)
    ELSE LET info == NoteInfo(body)
         IN  IF DOMAIN body.series = {}
             THEN Failure(info \o << "Error: Unexpected response structure", "Full response:" >>)
             ELSE LET used == IF key \in DOMAIN body.series THEN key
                              ELSE CHOOSE k \in DOMAIN body.series : TRUE
                      raw == FromDict(body.series[used])
                  IN  IF AsTypeRaises(raw)
                      THEN Failure(info \o << "Error processing data" >>)
                      ELSE RenameAndWindow(tf, BuildTable(body.series[used]), info)

\* the rate-limit Note taken as a failure of the fetch
ParseResponse_NoteFails(tf, key, body) ==
    IF body.errorMessage
    THEN Failure(<< "Alpha Vantage API Error" >>)
    ELSE LET info == NoteInfo(body)
         IN  IF body.note = "ratelimit"
             THEN Failure(info)
             ELSE IF key \notin DOMAIN body.series
             THEN Failure(info \o << "Error: Unexpected response structure", "Full response:" >>)
             ELSE LET raw == FromDict(body.series[key])
                  IN  IF AsTypeRaises(raw)
                      THEN Failure(info \o << "Error processing data" >>)
                      ELSE RenameAndWindow(tf, BuildTable(body.series[key]), info)

\* lines 50-123 for a response whose status is OK and whose body is body
ParseResponse(tf, key, body) ==
    IF body.errorMessage
    THEN Failure(<< "Alpha Vantage API Error" >>)
    ELSE LET info == NoteInfo(body)
         IN  IF key \notin DOMAIN body.series
             THEN Failure(info \o << "Error: Unexpected response structure", "Full response:" >>)
             ELSE LET raw == FromDict(body.series[key])
                  IN  IF AsTypeRaises(raw)
                      THEN Failure(info \o << "Error processing data" >>)
                      ELSE RenameAndWindow(tf, BuildTable(body.series[key]), info)

\* lines 45-47 and 115-117: requests.get or raise_for_status raised
RequestFailed == Failure(<< "Error fetching data from Alpha Vantage" >>)

\* lines 41-43
InvalidTimeframe == Failure(<< "Error: Invalid timeframe" >>)

---------------------------------------------------------------------------
(* The provider's answers: the inputs of the model *)

Tickers == {"IBM", "MSFT"}

\* the three timeframes and one string that is none of them
TimeframeInputs == Timeframes \cup {"daily"}

EnvelopeKeys == {data_key_map[tf] : tf \in Timeframes}

Notes == {"none", "ratelimit", "other"}

SchemaPlain == {"1. open", "2. high", "3. low", "4. close", "5. volume"}
SchemaMonthlyAdjusted == {"1. open", "2. high", "3. low", "4. close",
                          "5. adjusted close", "6. volume", "7. dividend amount"}
SchemaDailyAdjusted == SchemaMonthlyAdjusted \cup {"8. split coefficient"}

Schemas == {SchemaPlain, SchemaMonthlyAdjusted, SchemaDailyAdjusted}

VolumeLabel(schema) == IF "5. volume" \in schema THEN "5. volume" ELSE "6. volume"

LabelNo(l) == CHOOSE j \in DOMAIN AllLabels : AllLabels[j] = l

\* day ordinal of day d (from 0) of month m (from 1) of year y
DayOrdinal(y, m, d) == (y * 12 + (m - 1)) * DaysPerMonth + d

\* the key of the i-th entry in time order, by the cadence of the envelope
KeyOf(i, envKey) ==
    IF envKey = "Time Series (5min)"
    THEN [date |-> DayOrdinal(2024, 6, 10 + (i - 1) \div PerDay),
          time |-> 570 + 5 * ((i - 1) % PerDay)]
    ELSE IF envKey = "Time Series (Daily)"
    THEN [date |-> DayOrdinal(2024, 5, 20 + i), time |-> 0]
    ELSE [date |-> DayOrdinal(2022, i, 27), time |-> 0]

\* one wrong cell of a series: a text that is no number, or a missing label
NoDefect == [kind |-> "none", row |-> 0, label |-> ""]

Defects(n, schema) ==
    {NoDefect}
    \cup {[kind |-> "text", row |-> r, label |-> l] :
            r \in {1, n} \cap (1..n), l \in {"4. close", VolumeLabel(schema)}}
    \cup {[kind |-> "absent", row |-> r, label |-> VolumeLabel(schema)] :
            r \in {n} \cap (1..n)}

EntryOf(i, envKey, schema, defect) ==
    LET labels == IF defect.kind = "absent" /\ defect.row = i
                  THEN schema \ {defect.label} ELSE schema
    IN  [key    |-> KeyOf(i, envKey),
         fields |-> [l \in labels |->
                       IF defect.kind = "text" /\ defect.row = i /\ defect.label = l
                       THEN [kind |-> "text", v |-> 0]
                       ELSE [kind |-> "num", v |-> 10 * i + LabelNo(l)]]]

\* the order the provider lists the entries in
Orders == {"descending", "rotated"}

Listed(p, n, order) ==
    IF order = "descending" THEN n + 1 - p ELSE ((p - 1 + n \div 2) % n) + 1

SeriesOf(n, envKey, schema, order, defect) ==
    [p \in 1..n |-> EntryOf(Listed(p, n, order), envKey, schema, defect)]

NoSeries == [k \in {} |-> << >>]

\* a JSON body: with the envelope key k holding n entries, or with none
BodyOf(em, nt, k, n, sc, o, d) ==
    [errorMessage |-> em, note |-> nt,
     series |-> IF k = "none" THEN NoSeries ELSE (k :> SeriesOf(n, k, sc, o, d))]

\* the largest series the model lets the provider send under the key k
MaxEntries(k, small) ==
    IF k = "none" THEN 0
    ELSE IF small THEN SmallEntries
    ELSE IF k = "Time Series (5min)" THEN MaxDays * PerDay
    ELSE IF k = "Time Series (Daily)" THEN MaxDaily
    ELSE MaxMonthly

NoBody == [errorMessage |-> FALSE, note |-> "none", series |-> NoSeries]

NoResponse == [status |-> "none", body |-> NoBody]

---------------------------------------------------------------------------
(* generate_strategy after the fetch, lines 219-247 *)

\* Timestamp.date() as str() writes it: year, month, day
DateText(ts) ==
    LET date == DateOf(ts)
    IN  [y |-> (date \div DaysPerMonth) \div 12,
         m |-> ((date \div DaysPerMonth) % 12) + 1,
         d |-> date % DaysPerMonth]

\* a timestamp of the index as to_csv writes it: the date alone when every
\* timestamp of the index is at midnight, else the date and the time of day
FormatTimestamp(ts, dateOnly) ==
    [date  |-> DateText(ts),
     clock |-> IF dateOnly THEN << >>
               ELSE << (ts % MinutesPerDay) \div 60, (ts % MinutesPerDay) % 60, 0 >>]

\* a float64 cell as to_csv writes it: nothing for NaN, else the shortest
\* decimal text that reads back as the same float, with ".0" after a whole
\* number
FormatFloat(x) ==
    IF x = NaN THEN [digits |-> << >>, point |-> << >>]
    ELSE [digits |-> << x >>, point |-> << 0 >>]

\* _prepare_data_for_sonar_prompt, lines 126-135: the empty string for an
\* empty frame, else a header line and one line per row
PrepareData(df) ==
    IF IsEmpty(df)
    THEN << >>
    ELSE LET dateOnly == \A i \in DOMAIN df.index : df.index[i] % MinutesPerDay = 0
         IN  << << "" >> \o df.columns >>
             \o [i \in DOMAIN df.index |->
                    << FormatTimestamp(df.index[i], dateOnly) >>
                    \o [j \in DOMAIN df.data[i] |-> FormatFloat(df.data[i][j])]]

\* Timestamp.strftime('%Y-%m'): year and month
MonthText(ts) == [y |-> DateText(ts).y, m |-> DateText(ts).m]

\* no description made yet
NoDescription == [form |-> "none"]

\* the description that names the length of the window asked for, not the
\* number of rows at hand
Describe_NominalWindow(tf, df) ==
    IF tf = "intraday"
    THEN [form |-> "the intraday trading session of", day |-> DateText(IndexMax(df))]
    ELSE IF tf = "weekly"
    THEN [form |-> "the daily trading data from .. to .. (last .. trading days)",
          from |-> DateText(IndexMin(df)), to |-> DateText(IndexMax(df)),
          last |-> WeeklyWindow]
    ELSE IF tf = "monthly"
    THEN [form |-> "the monthly trading data from .. to .. (last .. months)",
          from |-> MonthText(IndexMin(df)), to |-> MonthText(IndexMax(df)),
          last |-> MonthlyWindow]
    ELSE [form |-> tf]

\* timeframe_description, lines 223-231
Describe(tf, df) ==
    IF tf = "intraday"
    THEN [form |-> "the intraday trading session of", day |-> DateText(IndexMax(df))]
    ELSE IF tf = "weekly"
    THEN [form |-> "the daily trading data from .. to .. (last .. trading days)",
          from |-> DateText(IndexMin(df)), to |-> DateText(IndexMax(df)),
          last |-> Len(df.index)]
    ELSE IF tf = "monthly"
    THEN [form |-> "the monthly trading data from .. to .. (last .. months)",
          from |-> MonthText(IndexMin(df)), to |-> MonthText(IndexMax(df)),
          last |-> Len(df.index)]
    ELSE [form |-> tf]

NoResult == [kind |-> "pending", text |-> << >>]
ReturnNone == [kind |-> "None", text |-> << >>]
ReturnText(t) == [kind |-> "text", text |-> t]
Raised == [kind |-> "raised", text |-> << >>]

NotFetched == [ret |-> "pending", df |-> EmptyDF, printed |-> << >>]

\* filter_text, lines 192-195: drops <think>...</think> blocks and [1] [2] [3]
RECURSIVE DropThink(_, _)
DropThink(t, inside) ==
    IF t = << >> THEN << >>
    ELSE IF inside
         THEN DropThink(Tail(t), Head(t) # "</think>")
         ELSE IF Head(t) = "<think>" /\ \E i \in DOMAIN t : t[i] = "</think>"
              THEN DropThink(Tail(t), TRUE)
              ELSE << Head(t) >> \o DropThink(Tail(t), FALSE)

IsCitation(w) == w \in {"[1]", "[2]", "[3]"}

filter_text(t) ==
    LET Kept(w) == ~IsCitation(w)
    IN  SelectSeq(DropThink(t, FALSE), Kept)

\* what the LLM may answer in message.content, after strip()
LlmContents == { << >>, << "Buy" >>, << "<think>", "hm", "</think>" >>,
                 << "<think>", "hm", "</think>", "Buy", "[1]" >> }

NoChoicesText == << "Could not retrieve",
                    "a summary for the given company. No choices in response." >>

---------------------------------------------------------------------------
(* The calls *)

\* the entries that run generate_strategy: the method itself, the method
\* FinancialSonarAnalyzer.strategy, the endpoint /strategy
GenerateEntries == {"generate", "strategy", "api"}

\* no argument given to strategy() yet
NoArgument == [ticker |-> [isStr |-> TRUE, text |-> ""], timeframe |-> ""]

\* no reply sent yet
NoReply == [status |-> 0, body |-> NoResult]

\* the locals of a call not made yet
FreshLocals ==
    [pc |-> "idle", entry |-> "none", ticker |-> "", timeframe |-> "",
     request |-> NoParams, data_key |-> "", httpCalls |-> 0, llmCalls |-> 0,
     response |-> NoResponse, fetched |-> NotFetched,
     timeframe_description |-> NoDescription, printed |-> << >>,
     result |-> NoResult]

Init ==
    /\ pc = "idle"
    /\ entry = "none"
    /\ ticker = ""
    /\ timeframe = ""
    /\ request = NoParams
    /\ data_key = ""
    /\ httpCalls = 0
    /\ llmCalls = 0
    /\ response = NoResponse
    /\ fetched = NotFetched
    /\ timeframe_description = NoDescription
    /\ printed = << >>
    /\ result = NoResult
    /\ calls = 0
    /\ parked = FreshLocals
    /\ argument = NoArgument
    /\ analyzer_result = NoResult
    /\ reply = NoReply
    /\ history = {}

\* the kind of failure of a fetch in the taxonomy of failures, read off its
\* inputs: the timeframe, how the GET ended and the body
Reason(tf, resp, key, outcome) ==
    IF tf \notin Timeframes THEN "InvalidTimeframe"
    ELSE IF resp.status # "ok" THEN "ProviderUnreachable"
    ELSE IF resp.body.errorMessage THEN "ProviderRejected"
    ELSE IF key \notin DOMAIN resp.body.series THEN "UnexpectedSchema"
    ELSE IF \E i \in DOMAIN resp.body.series[key] :
               \E l \in DOMAIN resp.body.series[key][i].fields :
                   resp.body.series[key][i].fields[l].kind = "text"
         THEN "MalformedBar"
    ELSE IF Len(resp.body.series[key]) = 0 THEN "NoData"
    ELSE IF outcome.ret = "None" THEN "Other"
    ELSE "none"

\* the record of a fetch that returned: its kind of failure and what the caller got
Record(tf, resp, key, outcome) ==
    [reason |-> Reason(tf, resp, key, outcome), ret |-> outcome.ret,
     rows |-> Len(outcome.df.index)]

\* _fetch_alpha_vantage_data up to requests.get, lines 19-46
StartFetch(tk, tf) ==
    LET r == ResolveParams(tk, tf)
    IN  IF r.ok
        THEN /\ pc' = "http"
             /\ request' = r.params
             /\ data_key' = r.data_key
             /\ httpCalls' = httpCalls + 1
             /\ fetched' = NotFetched
             /\ UNCHANGED << printed, history >>
        ELSE /\ pc' = "returned"
             /\ fetched' = InvalidTimeframe
             /\ printed' = printed \o InvalidTimeframe.printed
             /\ history' = history \cup {Record(tf, NoResponse, "", InvalidTimeframe)}
             /\ UNCHANGED << request, data_key, httpCalls >>

\* the caller invokes _fetch_alpha_vantage_data(ticker, timeframe)
CallFetch(tk, tf) ==
    /\ pc = "idle"
    /\ entry' = "fetch"
    /\ ticker' = tk
    /\ timeframe' = tf
    /\ StartFetch(tk, tf)
    /\ calls' = calls + 1
    /\ UNCHANGED << llmCalls, response, result, timeframe_description, parked,
                    argument, analyzer_result, reply >>

\* the caller invokes generate_strategy(ticker, timeframe), lines 210-217
CallGenerate(tk, tf) ==
    /\ pc = "idle"
    /\ entry' = "generate"
    /\ ticker' = tk
    /\ timeframe' = tf
    /\ IF TimeframeAccepted(tf)
       THEN /\ StartFetch(tk, tf)
            /\ UNCHANGED result
       ELSE /\ pc' = "done"
            /\ printed' = << "Error: Invalid timeframe (generate_strategy)" >>
            /\ result' = ReturnNone
            /\ UNCHANGED << request, data_key, httpCalls, fetched, history >>
    /\ calls' = calls + 1
    /\ UNCHANGED << llmCalls, response, timeframe_description, parked,
                    argument, analyzer_result, reply >>

\* a fetch that sends the request once more when the first attempt failed
FinishFetch_Retry(resp, outcome) ==
    /\ pc = "http"
    /\ IF outcome.ret = "None" /\ httpCalls < 2
       THEN /\ pc' = "http"
            /\ httpCalls' = httpCalls + 1
            /\ UNCHANGED << response, fetched, printed, history >>
       ELSE /\ pc' = "returned"
            /\ response' = resp
            /\ fetched' = outcome
            /\ printed' = printed \o outcome.printed
            /\ history' = history \cup {Record(timeframe, resp, data_key, outcome)}
            /\ UNCHANGED httpCalls
    /\ UNCHANGED << entry, ticker, timeframe, request, data_key,
                    llmCalls, result, calls, timeframe_description, parked,
                    argument, analyzer_result, reply >>

\* a generator that remembers that a fetch failed and fails every later one
FinishFetch_Sticky(resp, outcome) ==
    /\ pc = "http"
    /\ pc' = "returned"
    /\ response' = resp
    /\ fetched' = IF \E h \in history : h.ret = "None"
                  THEN RequestFailed ELSE outcome
    /\ printed' = printed \o outcome.printed
    /\ history' = history \cup {Record(timeframe, resp, data_key, outcome)}
    /\ UNCHANGED << entry, ticker, timeframe, request, data_key, httpCalls,
                    llmCalls, result, calls, timeframe_description, parked,
                    argument, analyzer_result, reply >>

\* the rest of _fetch_alpha_vantage_data once the GET has ended with resp
FinishFetch(resp, outcome) ==
    /\ pc = "http"
    /\ pc' = "returned"
    /\ response' = resp
    /\ fetched' = outcome
    /\ printed' = printed \o outcome.printed
    /\ history' = history \cup {Record(timeframe, resp, data_key, outcome)}
    /\ UNCHANGED << entry, ticker, timeframe, request, data_key, httpCalls,
                    llmCalls, result, calls, timeframe_description, parked,
                    argument, analyzer_result, reply >>

\* requests.get raises: no response at all
ProviderUnreachable ==
    FinishFetch([status |-> "unreachable", body |-> NoBody], RequestFailed)

\* an error status not looked at: the body is read as that of a response
\* of status OK
ProviderHttpError_ParsesBody ==
    /\ pc = "http"
    /\ \E em \in BOOLEAN, nt \in Notes, k \in EnvelopeKeys \cup {"none"},
          sc \in Schemas, o \in Orders :
        \E n \in 0..MaxEntries(k, TRUE) :
            \E d \in Defects(n, sc) :
                LET body == BodyOf(em, nt, k, n, sc, o, d)
                IN  FinishFetch([status |-> "error", body |-> body],
                                ParseResponse(timeframe, data_key, body))

\* the response has an error status: raise_for_status raises, the body is not read
ProviderHttpError ==
    /\ pc = "http"
    /\ \E em \in BOOLEAN, nt \in Notes, k \in EnvelopeKeys \cup {"none"},
          sc \in Schemas, o \in Orders :
        \E n \in 0..MaxEntries(k, TRUE) :
            \E d \in Defects(n, sc) :
                FinishFetch([status |-> "error", body |-> BodyOf(em, nt, k, n, sc, o, d)],
                            RequestFailed)

\* the response has status OK and a JSON body
ProviderOk ==
    /\ pc = "http"
    /\ \E em \in BOOLEAN, nt \in Notes, k \in EnvelopeKeys \cup {"none"},
          sc \in Schemas, o \in Orders :
        \E n \in 0..MaxEntries(k, em \/ nt # "none") :
            \E d \in Defects(n, sc) :
                LET body == BodyOf(em, nt, k, n, sc, o, d)
                IN  FinishFetch([status |-> "ok", body |-> body],
                                ParseResponse(timeframe, data_key, body))

\* generate_strategy without the test of what the fetch returned: the LLM
\* is called whatever the fetch gave
GenerateContinue_Unchecked ==
    /\ pc = "returned"
    /\ entry \in GenerateEntries
    /\ response' = NoResponse
    /\ pc' = "llm"
    /\ timeframe_description' = IF fetched.ret = "df" /\ ~IsEmpty(fetched.df)
                                THEN Describe(timeframe, fetched.df)
                                ELSE [form |-> timeframe]
    /\ llmCalls' = llmCalls + 1
    /\ UNCHANGED << printed, result >>
    /\ UNCHANGED << entry, ticker, timeframe, request, data_key, httpCalls,
                    fetched, calls, parked, argument, analyzer_result, reply,
                    history >>

\* generate_strategy from the return of the fetch to the LLM call, lines 219-239
GenerateContinue ==
    /\ pc = "returned"
    /\ entry \in GenerateEntries
    /\ response' = NoResponse
    /\ IF fetched.ret = "None" \/ IsEmpty(fetched.df)
       THEN /\ pc' = "done"
            /\ printed' = printed \o << "Could not fetch or process historical data" >>
            /\ result' = ReturnNone
            /\ UNCHANGED << llmCalls, timeframe_description >>
       ELSE IF PrepareData(fetched.df) = << >>
       THEN /\ pc' = "done"
            /\ timeframe_description' = Describe(timeframe, fetched.df)
            /\ printed' = printed \o << "Formatted data for sonar-api is empty." >>
            /\ result' = ReturnNone
            /\ UNCHANGED llmCalls
       ELSE /\ pc' = "llm"
            /\ timeframe_description' = Describe(timeframe, fetched.df)
            /\ llmCalls' = llmCalls + 1
            /\ UNCHANGED << printed, result >>
    /\ UNCHANGED << entry, ticker, timeframe, request, data_key, httpCalls,
                    fetched, calls, parked, argument, analyzer_result, reply,
                    history >>

FinishGenerate(res, msgs) ==
    /\ pc = "llm"
    /\ pc' = "done"
    /\ result' = res
    /\ printed' = printed \o msgs
    /\ UNCHANGED << entry, ticker, timeframe, request, data_key, httpCalls,
                    llmCalls, response, fetched, timeframe_description, calls,
                    parked, argument, analyzer_result, reply, history >>

\* client.post or raise_for_status raises: nothing in generate_strategy catches it
LlmRaises == FinishGenerate(Raised, << >>)

\* the LLM response has no choices, lines 189-190 and 241-244
LlmNoChoices ==
    FinishGenerate(ReturnText(filter_text(NoChoicesText)),
                   << "Successfully generated strategy" >>)

\* the LLM response has a choice, lines 187-188 and 241-247
LlmAnswers ==
    \E content \in LlmContents :
        IF content # << >>
        THEN FinishGenerate(ReturnText(filter_text(content)),
                            << "Successfully generated strategy" >>)
        ELSE FinishGenerate(ReturnNone, << "Failed to generate strategy from sonar-api" >>)

\* the response has an error status and no JSON body
ProviderHttpErrorNoBody ==
    FinishFetch([status |-> "error", body |-> NoBody], RequestFailed)

\* the response has status OK and a JSON body of at most SmallEntries
\* entries, listed newest first
ProviderOkSmall ==
    /\ pc = "http"
    /\ \E em \in BOOLEAN, nt \in Notes, k \in EnvelopeKeys \cup {"none"},
          sc \in Schemas :
        \E n \in 0..MaxEntries(k, TRUE) :
            \E d \in Defects(n, sc) :
                LET body == BodyOf(em, nt, k, n, sc, "descending", d)
                IN  FinishFetch([status |-> "ok", body |-> body],
                                ParseResponse(timeframe, data_key, body))

\* the call is over and the caller makes another: every local of the call is
\* gone, the counters of the new call start at zero
CallAgain ==
    /\ calls < MaxCalls
    /\ \/ pc = "done"
       \/ pc = "returned" /\ entry = "fetch"
    /\ pc' = "idle"
    /\ entry' = "none"
    /\ ticker' = ""
    /\ timeframe' = ""
    /\ request' = NoParams
    /\ data_key' = ""
    /\ httpCalls' = 0
    /\ llmCalls' = 0
    /\ response' = NoResponse
    /\ fetched' = NotFetched
    /\ timeframe_description' = NoDescription
    /\ printed' = << >>
    /\ result' = NoResult
    /\ UNCHANGED << calls, parked, argument, analyzer_result, reply, history >>

---------------------------------------------------------------------------
(* FinancialSonarAnalyzer.strategy and the endpoints, main-checkpoint.py *)

\* A text is a sequence of pieces; a phrase occurs in a text when it is one
\* of its pieces.
Contains(text, phrase) == \E i \in DOMAIN text : text[i] = phrase

\* str.lower() of the pieces that have capitals
LowerCase ==
    ("Invalid" :> "invalid") @@ ("An error occurred" :> "an error occurred")
    @@ ("Could not retrieve" :> "could not retrieve") @@ ("Buy" :> "buy")
    @@ ("An API error occurred" :> "an api error occurred")

\* result.lower()
Lower(text) ==
    [i \in DOMAIN text |->
        IF text[i] \in DOMAIN LowerCase THEN LowerCase[text[i]] ELSE text[i]]

\* str.strip() of a ticker
Strip(t) == IF t \in {"", " "} THEN "" ELSE t

\* a dict with the key 'error'
ErrorDict(msg) == [kind |-> "error_dict", text |-> msg]

\* a dict without the key 'error'
OtherDict(msg) == [kind |-> "other_dict", text |-> msg]

\* strategy(), lines 230-234: the dict returned before any generator is
\* built, NoResult when the arguments pass
StrategyRejects(targ, tf) ==
    IF ~targ.isStr \/ Strip(targ.text) = ""
    THEN ErrorDict(<< "Invalid", "ticker name." >>)
    ELSE IF tf \notin {"intraday", "weekly", "monthly"}
    THEN ErrorDict(<< "Invalid", "timeframe", "Must be one of" >>)
    ELSE NoResult

\* strategy() without its try: what generate_strategy raised goes on to
\* the caller
StrategyOutput_Propagates(res) == res

\* strategy(), lines 242-245: what generate_strategy returned, or the dict
\* made of the exception it raised
StrategyOutput(res) ==
    IF res.kind = "raised"
    THEN ErrorDict(<< "An error occurred", "while generating strategy" >>)
    ELSE res

\* the HTTPException of status 400 raised with a detail
BadRequest(detail) == [status |-> 400, body |-> [kind |-> "detail", text |-> detail]]

\* handle_analyzer_response, lines 457-463, and the reply of the endpoint
\* that returns what it returned
handle_analyzer_response(r) ==
    IF /\ r.kind = "text"
       /\ \/ Contains(r.text, "An error occurred")
          \/ Contains(Lower(r.text), "Invalid")
          \/ Contains(r.text, "Could not retrieve")
    THEN BadRequest(r.text)
    ELSE IF r.kind = "error_dict"
    THEN BadRequest(r.text)
    ELSE [status |-> 200, body |-> r]

\* the ticker arguments: a ticker, the empty string, a blank string, and a
\* value that is no string
TickerArguments ==
    {[isStr |-> TRUE, text |-> "IBM"], [isStr |-> TRUE, text |-> ""],
     [isStr |-> TRUE, text |-> " "], [isStr |-> FALSE, text |-> ""]}

\* strategy(ticker, timeframe) invoked for the entry e, lines 229-242
CallStrategyAs(e, targ, tf) ==
    /\ pc = "idle"
    /\ entry' = e
    /\ argument' = [ticker |-> targ, timeframe |-> tf]
    /\ IF StrategyRejects(targ, tf) # NoResult
       THEN /\ pc' = "finished"
            /\ analyzer_result' = StrategyRejects(targ, tf)
            /\ UNCHANGED << ticker, timeframe, request, data_key, httpCalls,
                            fetched, printed, history >>
       ELSE /\ ticker' = targ.text
            /\ timeframe' = tf
            /\ StartFetch(targ.text, tf)
            /\ UNCHANGED analyzer_result
    /\ calls' = calls + 1
    /\ UNCHANGED << llmCalls, response, result, timeframe_description, parked,
                    reply >>

\* a caller invokes FinancialSonarAnalyzer.strategy
CallStrategy(targ, tf) == CallStrategyAs("strategy", targ, tf)

\* POST /strategy, lines 452-454 and 486-488: a body whose ticker is a
\* string; a timeframe that does not match the pattern of StrategyInput is
\* refused by the validation, before the handler runs
ApiStrategy(targ, tf) ==
    /\ targ.isStr
    /\ IF tf \in {"intraday", "weekly", "monthly"}
       THEN CallStrategyAs("api", targ, tf)
       ELSE /\ pc = "idle"
            /\ pc' = "responded"
            /\ entry' = "api"
            /\ argument' = [ticker |-> targ, timeframe |-> tf]
            /\ reply' = [status |-> 422, body |-> [kind |-> "detail",
                                                   text |-> << "string_pattern_mismatch" >>]]
            /\ calls' = calls + 1
            /\ UNCHANGED << ticker, timeframe, request, data_key, httpCalls,
                            llmCalls, response, fetched, timeframe_description,
                            printed, result, parked, analyzer_result, history >>

\* strategy() returns, lines 242-245
StrategyReturn ==
    /\ pc = "done"
    /\ entry \in {"strategy", "api"}
    /\ pc' = "finished"
    /\ analyzer_result' = StrategyOutput(result)
    /\ UNCHANGED << entry, ticker, timeframe, request, data_key, httpCalls,
                    llmCalls, response, fetched, timeframe_description, printed,
                    result, calls, parked, argument, reply, history >>

\* api_get_strategy after strategy() returned, lines 488-489
ApiRespond ==
    /\ pc = "finished"
    /\ entry = "api"
    /\ pc' = "responded"
    /\ reply' = handle_analyzer_response(analyzer_result)
    /\ UNCHANGED << entry, ticker, timeframe, request, data_key, httpCalls,
                    llmCalls, response, fetched, timeframe_description, printed,
                    result, calls, parked, argument, analyzer_result, history >>

\* what the other analyzer methods may return: their own messages for a bad
\* argument, the messages of get_response, an answer of the LLM, dicts
AnalyzerResults ==
    {ReturnText(<< "Invalid", "company name.", "Please provide a valid company name." >>),
     ReturnText(<< "Invalid", "stock name.", "Please provide a valid company name." >>),
     ReturnText(<< "Invalid", "lookback period.", "Please provide a positive integer." >>),
     ReturnText(<< "Could not retrieve", "a valid response from the AI model." >>),
     ReturnText(<< "An API error occurred", "500" >>),
     ReturnText(<< "Apple", "An error occurred", "in its supply chain" >>),
     ReturnText(<< "Buy" >>),
     ReturnText(<< >>),
     ErrorDict(<< "Invalid", "action or missing parameters" >>),
     OtherDict(<< "momentum" >>)}

\* POST /news, /sentiment, /risk, /research, /dashboard, /assist, lines
\* 465-499: the analyzer method returns r and the endpoint hands it to
\* handle_analyzer_response
ApiOther ==
    /\ pc = "idle"
    /\ \E r \in AnalyzerResults :
          /\ analyzer_result' = r
          /\ reply' = handle_analyzer_response(r)
    /\ pc' = "responded"
    /\ entry' = "api_other"
    /\ calls' = calls + 1
    /\ UNCHANGED << ticker, timeframe, request, data_key, httpCalls, llmCalls,
                    response, fetched, timeframe_description, printed, result,
                    parked, argument, history >>

Next ==
    \/ \E tk \in Tickers, tf \in TimeframeInputs : CallFetch(tk, tf)
    \/ \E tk \in Tickers, tf \in TimeframeInputs : CallGenerate(tk, tf)
    \/ ProviderUnreachable
    \/ ProviderHttpError
    \/ ProviderOk
    \/ GenerateContinue
    \/ LlmRaises
    \/ LlmNoChoices
    \/ LlmAnswers
    \/ \E targ \in TickerArguments, tf \in TimeframeInputs : CallStrategy(targ, tf)
    \/ \E targ \in TickerArguments, tf \in TimeframeInputs : ApiStrategy(targ, tf)
    \/ StrategyReturn
    \/ ApiRespond
    \/ ApiOther

\* one call
Spec == Init /\ [][Next]_vars

NextCalls ==
    \/ \E tk \in Tickers, tf \in TimeframeInputs : CallFetch(tk, tf)
    \/ \E tk \in Tickers, tf \in TimeframeInputs : CallGenerate(tk, tf)
    \/ ProviderUnreachable
    \/ ProviderHttpErrorNoBody
    \/ ProviderOkSmall
    \/ GenerateContinue
    \/ LlmRaises
    \/ LlmNoChoices
    \/ LlmAnswers
    \/ CallAgain

\* MaxCalls calls one after the other, on small responses
SpecCalls == Init /\ [][NextCalls]_vars

\* One call, with what the code itself makes sure of about progress: a call
\* that has its fetch back goes on (GenerateContinue), and client.post is given
\* timeout=600.0 (line 182), so the wait for the LLM ends by raising if by
\* nothing else (LlmRaises).  requests.get is given no timeout (line 46) and
\* requests sets none by default: nothing but the provider ends the wait for
\* its response, and of the provider nothing is assumed.
SpecLive ==
    /\ Init
    /\ [][Next]_vars
    /\ WF_vars(GenerateContinue)
    /\ WF_vars(LlmRaises)

\* the response has status OK and a JSON body of at most one entry, with no
\* Note, listed as it is
ProviderOkTiny ==
    /\ pc = "http"
    /\ \E em \in BOOLEAN, k \in {data_key, "none"}, sc \in Schemas :
        \E n \in 0..MaxEntries(k, TRUE) - 1 :
            LET body == BodyOf(em, "none", k, n, sc, "descending", NoDefect)
            IN  FinishFetch([status |-> "ok", body |-> body],
                            ParseResponse(timeframe, data_key, body))

\* The thread of another call is scheduled.  Every name a call works with
\* is an argument or a local of the method (params, data_key, response,
\* data, df, lines 19-113), and strategy() builds a generator of its own for
\* each call (main-checkpoint.py lines 236-241), whose two attributes are
\* only read: a switch of threads puts all of the running call's state
\* aside and brings back all of the other's.
Switch ==
    /\ parked' = [pc |-> pc, entry |-> entry, ticker |-> ticker,
                  timeframe |-> timeframe, request |-> request,
                  data_key |-> data_key, httpCalls |-> httpCalls,
                  llmCalls |-> llmCalls, response |-> response,
                  fetched |-> fetched,
                  timeframe_description |-> timeframe_description,
                  printed |-> printed, result |-> result]
    /\ pc' = parked.pc
    /\ entry' = parked.entry
    /\ ticker' = parked.ticker
    /\ timeframe' = parked.timeframe
    /\ request' = parked.request
    /\ data_key' = parked.data_key
    /\ httpCalls' = parked.httpCalls
    /\ llmCalls' = parked.llmCalls
    /\ response' = parked.response
    /\ fetched' = parked.fetched
    /\ timeframe_description' = parked.timeframe_description
    /\ printed' = parked.printed
    /\ result' = parked.result
    /\ UNCHANGED << calls, history, argument, analyzer_result, reply >>

NextThreads ==
    \/ \E tk \in Tickers, tf \in TimeframeInputs : CallFetch(tk, tf)
    \/ ProviderUnreachable
    \/ ProviderOkTiny
    \/ CallAgain
    \/ Switch

\* two threads that call _fetch_alpha_vantage_data, each MaxCalls times at
\* most in all, on responses of at most one entry, in any interleaving
SpecThreads == Init /\ [][NextThreads]_vars

---------------------------------------------------------------------------
(* Notions the properties below are stated with *)

\* the fetch has returned after a response with status OK
OkResponse == pc = "returned" /\ response.status = "ok"

\* the body holds the envelope key the timeframe asks for
HasEnvelope == data_key \in DOMAIN response.body.series

Envelope == response.body.series[data_key]

AllNumeric(series) ==
    \A i \in DOMAIN series : \A l \in DOMAIN series[i].fields :
        series[i].fields[l].kind = "num"

\* status OK, no Error Message, the expected envelope, every value a number
NumericEnvelope ==
    /\ OkResponse
    /\ ~response.body.errorMessage
    /\ HasEnvelope
    /\ AllNumeric(Envelope)

EnvelopeTimes == {ToDatetime(Envelope[i].key) : i \in DOMAIN Envelope}

IndexSet(df) == {df.index[i] : i \in DOMAIN df.index}

Ascending(seq) == \A i \in 1..(Len(seq) - 1) : seq[i] < seq[i + 1]

\* the n greatest of a set of instants
LastOf(times, n) == {t \in times : Cardinality({u \in times : u > t}) < n}

\* every row of the returned table carries the close of the entry of its instant
ClosePreserved ==
    /\ HasColumn(fetched.df, "close")
    /\ \A i \in DOMAIN fetched.df.index :
          \E p \in DOMAIN Envelope :
              /\ ToDatetime(Envelope[p].key) = fetched.df.index[i]
              /\ fetched.df.data[i][ColumnOf(fetched.df, "close")]
                    = Envelope[p].fields["4. close"].v

---------------------------------------------------------------------------
(* Properties *)

\* C1: a call of _fetch_alpha_vantage_data or of generate_strategy with a
\* timeframe other than intraday, weekly, monthly ends at once with None and
\* the invalid-timeframe message: no GET is sent to the provider, no LLM call
\* is made, no request is built and no response is read.
C1_InvalidTimeframeNoNetwork ==
    (entry # "none" /\ timeframe \notin {"intraday", "weekly", "monthly"}) =>
        /\ httpCalls = 0
        /\ llmCalls = 0
        /\ request = NoParams
        /\ response = NoResponse
        /\ entry = "fetch" =>
              /\ pc = "returned"
              /\ fetched.ret = "None"
              /\ fetched.printed = << "Error: Invalid timeframe" >>
        /\ entry = "generate" =>
              /\ pc = "done"
              /\ result.kind = "None"

C1_Witness ==
    /\ entry = "fetch"
    /\ timeframe = "daily"
    /\ pc = "returned"
    /\ fetched.ret = "None"
    /\ httpCalls = 0

\* C2: for each valid timeframe the GET carries exactly the parameters of the
\* table (and symbol = ticker, apikey) and the fetch looks for the envelope
\* key of the table: intraday has interval 5min and outputsize full, weekly
\* has outputsize compact and no interval, monthly has neither.
C2_RequestTable ==
    (entry # "none" /\ timeframe \in {"intraday", "weekly", "monthly"}) =>
        /\ httpCalls = 1
        /\ timeframe = "intraday" =>
              /\ request = [k \in {"symbol", "apikey", "function", "interval", "outputsize"} |->
                              CASE k = "symbol" -> ticker
                                [] k = "apikey" -> alpha_vantage_api_key
                                [] k = "function" -> "TIME_SERIES_INTRADAY"
                                [] k = "interval" -> "5min"
                                [] k = "outputsize" -> "full"]
              /\ data_key = "Time Series (5min)"
        /\ timeframe = "weekly" =>
              /\ request = [k \in {"symbol", "apikey", "function", "outputsize"} |->
                              CASE k = "symbol" -> ticker
                                [] k = "apikey" -> alpha_vantage_api_key
                                [] k = "function" -> "TIME_SERIES_DAILY_ADJUSTED"
                                [] k = "outputsize" -> "compact"]
              /\ data_key = "Time Series (Daily)"
        /\ timeframe = "monthly" =>
              /\ request = [k \in {"symbol", "apikey", "function"} |->
                              CASE k = "symbol" -> ticker
                                [] k = "apikey" -> alpha_vantage_api_key
                                [] k = "function" -> "TIME_SERIES_MONTHLY_ADJUSTED"]
              /\ data_key = "Monthly Adjusted Time Series"

C2_Witness ==
    /\ pc = "http"
    /\ timeframe = "weekly"
    /\ ticker = "MSFT"
    /\ request["symbol"] = "MSFT"
    /\ "interval" \notin DOMAIN request

\* C3: weekly, an envelope of N >= 1 entries with numeric values: the fetch
\* succeeds, the table has 7 rows when N >= 7 and N rows when N < 7, and the
\* rows are the entries with the latest 7 instants, in ascending order.
C3_WeeklyWindow ==
    (NumericEnvelope /\ timeframe = "weekly" /\ Len(Envelope) >= 1) =>
        /\ fetched.ret = "df"
        /\ Len(fetched.df.index) = (IF Len(Envelope) >= 7 THEN 7 ELSE Len(Envelope))
        /\ IndexSet(fetched.df) = LastOf(EnvelopeTimes, 7)
        /\ Ascending(fetched.df.index)
        /\ ClosePreserved

C3_Witness ==
    /\ NumericEnvelope
    /\ timeframe = "weekly"
    /\ Len(Envelope) > 7
    /\ fetched.ret = "df"
    /\ Len(fetched.df.index) = 7

\* C4: monthly, an envelope of N >= 1 entries with the provider's monthly
\* labels and numeric values: the fetch succeeds, the table has min(N, 24)
\* rows and they are the entries with the latest 24 instants, ascending.
C4_MonthlyWindow ==
    (/\ NumericEnvelope
     /\ timeframe = "monthly"
     /\ Len(Envelope) >= 1
     /\ \A i \in DOMAIN Envelope :
           {"1. open", "2. high", "3. low", "4. close", "6. volume"}
               \subseteq DOMAIN Envelope[i].fields) =>
        /\ fetched.ret = "df"
        /\ Len(fetched.df.index) = (IF Len(Envelope) > 24 THEN 24 ELSE Len(Envelope))
        /\ IndexSet(fetched.df) = LastOf(EnvelopeTimes, 24)
        /\ Ascending(fetched.df.index)
        /\ ClosePreserved

C4_Witness ==
    /\ NumericEnvelope
    /\ timeframe = "monthly"
    /\ Len(Envelope) > 24
    /\ fetched.ret = "df"
    /\ Len(fetched.df.index) = 24

\* C5: intraday, an envelope of N >= 1 entries with numeric values: the
\* table holds exactly the entries whose calendar date is the latest date of
\* the envelope, every one of them and none of an earlier date, ascending.
C5_IntradayLatestDay ==
    (NumericEnvelope /\ timeframe = "intraday" /\ Len(Envelope) >= 1) =>
        LET dates == {Envelope[i].key.date : i \in DOMAIN Envelope}
            latest == CHOOSE d \in dates : \A e \in dates : e <= d
        IN  /\ fetched.ret = "df"
            /\ IndexSet(fetched.df) =
                  {ToDatetime(Envelope[i].key) :
                      i \in {j \in DOMAIN Envelope : Envelope[j].key.date = latest}}
            /\ Len(fetched.df.index) = Cardinality(IndexSet(fetched.df))
            /\ Ascending(fetched.df.index)
            /\ ClosePreserved

C5_Witness ==
    /\ NumericEnvelope
    /\ timeframe = "intraday"
    /\ Cardinality({Envelope[i].key.date : i \in DOMAIN Envelope}) >= 2
    /\ fetched.ret = "df"
    /\ Len(fetched.df.index) >= 2
    /\ Len(fetched.df.index) < Len(Envelope)

\* C6: a body with an Error Message makes the fetch return None with the
\* provider's error printed and no table, also when the body holds the
\* expected envelope.
C6_ErrorMessageRejected ==
    (OkResponse /\ response.body.errorMessage) =>
        /\ fetched.ret = "None"
        /\ fetched.df = EmptyDF
        /\ fetched.printed = << "Alpha Vantage API Error" >>

C6_Witness ==
    /\ OkResponse
    /\ response.body.errorMessage
    /\ HasEnvelope
    /\ Len(Envelope) >= 1
    /\ AllNumeric(Envelope)
    /\ fetched.ret = "None"

\* C7: a body with no Error Message that lacks the envelope key of the
\* requested timeframe makes the fetch return None with the
\* unexpected-structure message, also when it holds the envelope key of
\* another timeframe.
C7_MissingEnvelopeKey ==
    (OkResponse /\ ~response.body.errorMessage /\ ~HasEnvelope) =>
        /\ fetched.ret = "None"
        /\ fetched.df = EmptyDF
        /\ \E i \in DOMAIN fetched.printed :
              fetched.printed[i] = "Error: Unexpected response structure"

C7_Witness ==
    /\ OkResponse
    /\ ~response.body.errorMessage
    /\ timeframe = "weekly"
    /\ DOMAIN response.body.series = {"Monthly Adjusted Time Series"}
    /\ Len(response.body.series["Monthly Adjusted Time Series"]) >= 1
    /\ fetched.ret = "None"

\* C8: an envelope with a value that is no number, in any field of any
\* entry, makes the fetch return None with the processing error and no
\* table, also when the entry lies outside the window.
C8_MalformedBarFailsAll ==
    (/\ OkResponse
     /\ ~response.body.errorMessage
     /\ HasEnvelope
     /\ ~AllNumeric(Envelope)) =>
        /\ fetched.ret = "None"
        /\ fetched.df = EmptyDF
        /\ fetched.printed[Len(fetched.printed)] = "Error processing data"

\* the entry with the earliest of more than 7 daily instants has a text close
C8_Witness ==
    /\ OkResponse
    /\ ~response.body.errorMessage
    /\ HasEnvelope
    /\ timeframe = "weekly"
    /\ Len(Envelope) > 7
    /\ \E i \in DOMAIN Envelope :
          /\ Envelope[i].fields["4. close"].kind = "text"
          /\ \A j \in DOMAIN Envelope :
                ToDatetime(Envelope[i].key) <= ToDatetime(Envelope[j].key)
    /\ fetched.ret = "None"

ProviderLabels(tf) ==
    IF tf = "intraday" THEN SchemaPlain
    ELSE IF tf = "weekly" THEN SchemaDailyAdjusted
    ELSE SchemaMonthlyAdjusted

\* C10: every table a fetch returns has exactly the columns open, high, low,
\* close, volume, with a number in every cell, for every timeframe; stated
\* for the responses whose entries carry the provider's own labels for the
\* function requested, with numeric values.
C10_FiveNumericFields ==
    (/\ NumericEnvelope
     /\ timeframe \in Timeframes
     /\ \A i \in DOMAIN Envelope : DOMAIN Envelope[i].fields = ProviderLabels(timeframe)
     /\ fetched.ret = "df") =>
        /\ Len(fetched.df.columns) = 5
        /\ {fetched.df.columns[j] : j \in DOMAIN fetched.df.columns}
              = {"open", "high", "low", "close", "volume"}
        /\ \A i \in DOMAIN fetched.df.data : \A j \in DOMAIN fetched.df.columns :
              fetched.df.data[i][j] # NaN

\* the envelope as the provider listed it is not in ascending order of time
ListedOutOfOrder ==
    \E i \in 1..(Len(Envelope) - 1) :
        ToDatetime(Envelope[i].key) > ToDatetime(Envelope[i + 1].key)

\* C11: every table a fetch returns has at least one row, and its index is
\* strictly ascending in time, so that no two rows carry the same timestamp,
\* whatever the order in which the provider listed the entries (the series
\* is a JSON object, so its keys are distinct).
C11_SortedNonEmpty ==
    (pc = "returned" /\ fetched.ret = "df") =>
        /\ Len(fetched.df.index) >= 1
        /\ Len(fetched.df.data) = Len(fetched.df.index)
        /\ Ascending(fetched.df.index)

C11_Witness ==
    /\ pc = "returned"
    /\ NumericEnvelope
    /\ ListedOutOfOrder
    /\ fetched.ret = "df"
    /\ Len(fetched.df.index) >= 3
    /\ Ascending(fetched.df.index)

\* C12: one fetch sends at most one GET to the provider: the count of
\* requests.get calls of a call never exceeds one, it is one exactly when a
\* request was built, and after a failure of any kind (no response, error
\* status, Error Message, missing series, non-numeric value, no data) the
\* call has returned with that single request and sends no other.
C12_AtMostOneGet ==
    /\ httpCalls <= 1
    /\ (httpCalls = 1) <=> (request # NoParams)
    /\ (pc = "returned" /\ response.status # "none") => httpCalls = 1

C12_Witness ==
    /\ pc = "returned"
    /\ response.status = "unreachable"
    /\ fetched.ret = "None"
    /\ httpCalls = 1

\* the body of the response with its Note taken away
WithoutNote == [response.body EXCEPT !.note = "none"]

\* C13: a Note in a response of status OK (the rate-limit information, or
\* any other) is not a failure by itself.  When the body also holds the
\* series under the expected envelope key, the fetch returns what it returns
\* for the same body without the Note: the same table, or the same None.
\* When the key is absent the fetch fails with the unexpected-structure
\* message.  (A body with an Error Message is rejected before the Note is
\* looked at.)
C13_NoteIsNotFailure ==
    (/\ pc = "returned"
     /\ OkResponse
     /\ ~response.body.errorMessage
     /\ response.body.note # "none") =>
        IF HasEnvelope
        THEN LET plain == ParseResponse(timeframe, data_key, WithoutNote)
             IN  /\ fetched.ret = plain.ret
                 /\ fetched.df = plain.df
        ELSE /\ fetched.ret = "None"
             /\ Len(fetched.printed) >= 2
             /\ fetched.printed[Len(fetched.printed) - 1]
                   = "Error: Unexpected response structure"

C13_Witness ==
    /\ pc = "returned"
    /\ NumericEnvelope
    /\ response.body.note = "ratelimit"
    /\ fetched.ret = "df"
    /\ Len(fetched.df.index) = Len(Envelope)
    /\ Len(Envelope) >= 2
    /\ "Alpha Vantage API Info" \in {fetched.printed[i] : i \in DOMAIN fetched.printed}

\* the messages with which the code reports that there is no data
NoDataMessages ==
    {"No intraday data found.", "No intraday data found for the latest day",
     "Not enough daily data", "No monthly data found"}

\* C14: a fetch never returns an empty table, and a response of status OK
\* whose expected series has zero entries makes the fetch fail as a fetch
\* without data, for every timeframe: it returns None and the message it
\* ends on is the no-data message of the timeframe.
C14_EmptyIsNoData ==
    /\ (pc = "returned" /\ fetched.ret = "df") => ~IsEmpty(fetched.df)
    /\ (/\ pc = "returned"
        /\ OkResponse
        /\ ~response.body.errorMessage
        /\ HasEnvelope
        /\ Len(Envelope) = 0) =>
           /\ fetched.ret = "None"
           /\ IsEmpty(fetched.df)
           /\ Len(fetched.printed) >= 1
           /\ fetched.printed[Len(fetched.printed)] \in NoDataMessages

\* C15: the wait for the provider's response is bounded, so that every fetch
\* that has sent its GET comes to its end, with a table or with a failure,
\* also when the provider never answers.
C15_FetchTerminates == (pc = "http") ~> (pc = "returned")

\* the year, month and day written in text are those of the instant ts
IsDateOf(text, ts) ==
    /\ text.m \in 1..12
    /\ text.d \in 0..(DaysPerMonth - 1)
    /\ DayOrdinal(text.y, text.m, text.d) = ts \div MinutesPerDay

\* the year and month written in text are those of the instant ts
IsMonthOf(text, ts) ==
    /\ text.m \in 1..12
    /\ DOMAIN text = {"y", "m"}
    /\ (ts \div MinutesPerDay) \div DaysPerMonth = text.y * 12 + (text.m - 1)

\* the earliest and the latest instant of the table the fetch returned
EarliestFetched == CHOOSE t \in IndexSet(fetched.df) : \A u \in IndexSet(fetched.df) : t <= u
LatestFetched == CHOOSE t \in IndexSet(fetched.df) : \A u \in IndexSet(fetched.df) : t >= u

\* C16: the description handed to the LLM is worked out from the table the
\* fetch returned, that is from the windowed series: for intraday it names
\* the date of the latest row; for weekly the dates of the earliest and the
\* latest row and the number of rows there are, which may be fewer than
\* seven; for monthly the year and month of the earliest and the latest row
\* and the number of rows there are.
C16_DescriptionFromWindow ==
    (pc = "llm") =>
        /\ timeframe = "intraday" =>
              /\ timeframe_description.form = "the intraday trading session of"
              /\ IsDateOf(timeframe_description.day, LatestFetched)
        /\ timeframe = "weekly" =>
              /\ timeframe_description.form
                    = "the daily trading data from .. to .. (last .. trading days)"
              /\ IsDateOf(timeframe_description.from, EarliestFetched)
              /\ IsDateOf(timeframe_description.to, LatestFetched)
              /\ timeframe_description.last = Cardinality(IndexSet(fetched.df))
        /\ timeframe = "monthly" =>
              /\ timeframe_description.form
                    = "the monthly trading data from .. to .. (last .. months)"
              /\ IsMonthOf(timeframe_description.from, EarliestFetched)
              /\ IsMonthOf(timeframe_description.to, LatestFetched)
              /\ timeframe_description.last = Cardinality(IndexSet(fetched.df))

\* thirty monthly entries, 2022-01 to 2024-06, of which the window keeps the
\* twenty-four from 2022-07: "from 2022-07 to 2024-06 (last 24 months)"
C16_Witness ==
    /\ pc = "llm"
    /\ timeframe = "monthly"
    /\ EarliestFetched = ToDatetime(KeyOf(7, "Monthly Adjusted Time Series"))
    /\ LatestFetched = ToDatetime(KeyOf(30, "Monthly Adjusted Time Series"))
    /\ timeframe_description =
          [form |-> "the monthly trading data from .. to .. (last .. months)",
           from |-> [y |-> 2022, m |-> 7], to |-> [y |-> 2024, m |-> 6],
           last |-> 24]

\* the instant a timestamp text of the rendered table stands for
ReadTimestamp(text) ==
    DayOrdinal(text.date.y, text.date.m, text.date.d) * MinutesPerDay
        + (IF text.clock = << >> THEN 0 ELSE text.clock[1] * 60 + text.clock[2])

\* the number a cell text of the rendered table stands for; NaN for an empty cell
ReadCell(text) == IF text.digits = << >> THEN NaN ELSE text.digits[1]

\* the rendered table read back as a sequence of bars: the first cell of a
\* row is the timestamp, the others are found by the names of the header
\* row; a field whose name the header does not carry has no value (NaN)
ReadBars(csv) ==
    IF csv = << >> THEN << >>
    ELSE LET header == csv[1]
             Has(name) == \E j \in 2..Len(header) : header[j] = name
             Col(name) == CHOOSE j \in 2..Len(header) : header[j] = name
             Field(i, name) == IF Has(name) THEN ReadCell(csv[i + 1][Col(name)]) ELSE NaN
         IN  [i \in 1..(Len(csv) - 1) |->
                [timestamp |-> ReadTimestamp(csv[i + 1][1]),
                 open   |-> Field(i, "open"),
                 high   |-> Field(i, "high"),
                 low    |-> Field(i, "low"),
                 close  |-> Field(i, "close"),
                 volume |-> Field(i, "volume")]]

\* the response carries the expected series, every value a number, under
\* the labels the provider gives the function requested, and the fetch
\* returned a table
ConformantFetch ==
    /\ pc = "returned"
    /\ NumericEnvelope
    /\ timeframe \in Timeframes
    /\ \A i \in DOMAIN Envelope : DOMAIN Envelope[i].fields = ProviderLabels(timeframe)
    /\ fetched.ret = "df"

\* the bars of the provider's series at the instants of the returned table,
\* in ascending order of time, with the values the provider gave
WindowedBars ==
    LET window == IndexSet(fetched.df)
        Nth(k) == CHOOSE t \in window : Cardinality({u \in window : u < t}) = k - 1
        EntryAt(t) == CHOOSE p \in DOMAIN Envelope : ToDatetime(Envelope[p].key) = t
        Bar(t) == LET f == Envelope[EntryAt(t)].fields
                  IN  [timestamp |-> t,
                       open   |-> f["1. open"].v,
                       high   |-> f["2. high"].v,
                       low    |-> f["3. low"].v,
                       close  |-> f["4. close"].v,
                       volume |-> f[VolumeLabel(DOMAIN f)].v]
    IN  [k \in 1..Cardinality(window) |-> Bar(Nth(k))]

\* C17: reading back the table rendered from the series a fetch returned
\* gives the same bars (timestamp, open, high, low, close, volume) in the
\* same order, every number being the one the provider sent; stated for the
\* responses whose entries carry the provider's own labels, with numeric
\* values.
C17_RoundTrip ==
    ConformantFetch => ReadBars(PrepareData(fetched.df)) = WindowedBars

\* the rendered table of the series the fetch returned
Rendered == PrepareData(fetched.df)

\* the header row and the rows of a rendered table: one row for each row of
\* the series, in its order, ascending in time, under the columns timestamp
\* (the unnamed index column), open, high, low, close, volume
RenderedAsBars ==
    /\ Len(Rendered) = 1 + Len(fetched.df.index)
    /\ Rendered[1] = << "", "open", "high", "low", "close", "volume" >>
    /\ \A i \in DOMAIN fetched.df.index :
          /\ Len(Rendered[i + 1]) = 6
          /\ ReadTimestamp(Rendered[i + 1][1]) = fetched.df.index[i]
    /\ \A i \in 1..(Len(fetched.df.index) - 1) :
          ReadTimestamp(Rendered[i + 1][1]) < ReadTimestamp(Rendered[i + 2][1])

\* a generate_strategy call that had no series to render has ended with
\* None and has made no LLM call
EmptyRenderIsNoData ==
    /\ PrepareData(EmptyDF) = << >>
    /\ (/\ entry = "generate"
        /\ pc \in {"llm", "done"}
        /\ (fetched.ret = "None" \/ Rendered = << >>)) =>
           /\ pc = "done"
           /\ llmCalls = 0
           /\ result = ReturnNone

\* C18: the render of a non-empty series is a header row followed by one
\* row for each bar, ascending in time, with the columns timestamp, open,
\* high, low, close, volume; the render of an empty series is the empty
\* string, and the caller then makes no LLM call and returns a failure.
\* The first part is stated for the responses whose entries carry the
\* provider's own labels, with numeric values.
C18_RenderShape ==
    /\ ConformantFetch => RenderedAsBars
    /\ EmptyRenderIsNoData

\* C19: when the GET ends without a response, or with a response of error
\* status, the fetch fails as a request that failed: it returns None and no
\* table, and the only message is that of the failed request, so nothing of
\* the body was parsed, even when the body of the error-status response
\* holds the expected series with numeric values.
C19_ErrorStatusNotParsed ==
    (pc = "returned" /\ response.status \in {"unreachable", "error"}) =>
        /\ fetched.ret = "None"
        /\ IsEmpty(fetched.df)
        /\ fetched.printed = << "Error fetching data from Alpha Vantage" >>
        /\ httpCalls = 1

C19_Witness ==
    /\ pc = "returned"
    /\ response.status = "error"
    /\ ~response.body.errorMessage
    /\ HasEnvelope
    /\ AllNumeric(Envelope)
    /\ Len(Envelope) >= 2
    /\ \A i \in DOMAIN Envelope : DOMAIN Envelope[i].fields = ProviderLabels(timeframe)
    /\ fetched.ret = "None"

\* what a fetch returns, as a function of its arguments, of the credential
\* (within the request of ResolveParams) and of the response to its own GET
FetchOf(tk, tf, resp) ==
    LET r == ResolveParams(tk, tf)
    IN  IF ~r.ok THEN InvalidTimeframe
        ELSE IF resp.status # "ok" THEN RequestFailed
        ELSE ParseResponse(tf, r.data_key, resp.body)

\* the call with the locals c sent the request of its arguments and, once
\* returned, returned what FetchOf gives for its arguments and its response
OwnInputsOnly(c) ==
    /\ c.pc \in {"http", "returned"} =>
          LET r == ResolveParams(c.ticker, c.timeframe)
          IN  /\ c.request = r.params
              /\ c.data_key = r.data_key
    /\ c.pc = "returned" => c.fetched = FetchOf(c.ticker, c.timeframe, c.response)

\* the locals of the call that runs
Running ==
    [pc |-> pc, ticker |-> ticker, timeframe |-> timeframe, request |-> request,
     data_key |-> data_key, response |-> response, fetched |-> fetched]

\* C20: what a fetch returns depends on nothing but its arguments, the
\* credential and the provider's response to its own request: whatever
\* calls were made before it, failed or not, and whatever other call is in
\* flight at the same time and however the two are interleaved, the request
\* is the one of its arguments and the result the one of its response; two
\* calls with the same arguments and the same response return the same.
C20_NoSharedState ==
    /\ OwnInputsOnly(Running)
    /\ OwnInputsOnly(parked)
    /\ (/\ pc = "returned"
        /\ parked.pc = "returned"
        /\ ticker = parked.ticker
        /\ timeframe = parked.timeframe
        /\ response = parked.response) => fetched = parked.fetched

\* a call has failed, a later call has returned a table, and another
\* call is in flight, its GET sent and not yet answered
C20_Witness ==
    /\ \E h \in history : h.ret = "None" /\ h.reason = "ProviderUnreachable"
    /\ calls >= 3
    /\ pc = "returned"
    /\ fetched.ret = "df"
    /\ Len(fetched.df.index) >= 1
    /\ parked.pc = "http"
    /\ parked.timeframe # timeframe

\* the provider's label of the value a column of the returned table holds
SourceLabel(col) ==
    IF col = "open" THEN "1. open"
    ELSE IF col = "high" THEN "2. high"
    ELSE IF col = "low" THEN "3. low"
    ELSE IF col = "close" THEN "4. close"
    ELSE IF col = "volume"
    THEN (IF timeframe = "monthly" THEN "6. volume" ELSE "5. volume")
    ELSE col

\* the number the provider gave under the label l in the entry of the
\* instant t; NaN when the entry has no such label
ProviderValue(t, l) ==
    LET e == Envelope[CHOOSE p \in DOMAIN Envelope : ToDatetime(Envelope[p].key) = t]
    IN  IF l \in DOMAIN e.fields THEN e.fields[l].v ELSE NaN

\* C21: for every timeframe the table a fetch returns is the tail of the
\* provider's entries in ascending order of time: its k rows are the k
\* latest entries, in ascending order, the last of them the entry of the
\* greatest timestamp, and every cell holds the number the provider gave for
\* that entry and that field.  For intraday too the rows of the latest day
\* are the last rows of the sorted table.
C21_WindowIsSuffix ==
    (pc = "returned" /\ OkResponse /\ fetched.ret = "df") =>
        LET df == fetched.df
            k  == Len(df.index)
        IN  /\ k >= 1
            /\ HasEnvelope
            /\ Ascending(df.index)
            /\ IndexSet(df) = LastOf(EnvelopeTimes, k)
            /\ \A t \in EnvelopeTimes : t <= df.index[k]
            /\ \A i \in 1..k : \A j \in DOMAIN df.columns :
                  df.data[i][j] = ProviderValue(df.index[i], SourceLabel(df.columns[j]))

\* intraday entries of three days listed out of order: the rows returned are
\* the entries of the latest day, which are the last of the sorted entries
C21_Witness ==
    /\ pc = "returned"
    /\ NumericEnvelope
    /\ timeframe = "intraday"
    /\ ListedOutOfOrder
    /\ Cardinality({Envelope[i].key.date : i \in DOMAIN Envelope}) = 3
    /\ fetched.ret = "df"
    /\ Len(fetched.df.index) = 2
    /\ IndexSet(fetched.df) = LastOf(EnvelopeTimes, 2)

\* C22: in generate_strategy the LLM is called only after a fetch that
\* returned a table that is not empty and renders to a text that is not
\* empty; when the fetch fails, of whichever kind, generate_strategy returns
\* None and has made no LLM call; and a call makes at most one GET, then at
\* most one LLM call, the GET having returned before the LLM call is made.
C22_LlmOnlyAfterFetch ==
    /\ httpCalls <= 1
    /\ llmCalls <= 1
    /\ llmCalls = 1 =>
          /\ entry \in GenerateEntries
          /\ pc \in {"llm", "done", "finished", "responded"}
          /\ httpCalls = 1
          /\ fetched.ret = "df"
          /\ ~IsEmpty(fetched.df)
          /\ PrepareData(fetched.df) # << >>
    /\ pc = "llm" => llmCalls = 1
    /\ (entry \in GenerateEntries /\ pc \in {"llm", "done"} /\ fetched.ret # "df") =>
          /\ pc = "done"
          /\ llmCalls = 0
          /\ result = ReturnNone

C22_Witness ==
    /\ entry = "generate"
    /\ pc = "done"
    /\ httpCalls = 1
    /\ llmCalls = 1
    /\ fetched.ret = "df"
    /\ result = ReturnText(<< "Buy" >>)

\* the endpoint /strategy has replied, the request having passed validation
StrategyReplied == entry = "api" /\ pc = "responded" /\ reply.status # 422

\* the generation of the strategy failed: strategy() refused the arguments,
\* or generate_strategy returned None (the fetch failed, the rendering was
\* empty, the LLM answered nothing) or raised
GenerationFailed ==
    \/ analyzer_result.kind = "error_dict"
    \/ result.kind \in {"None", "raised"}

\* C23: whenever the generation of a strategy fails, the endpoint /strategy
\* replies with HTTP 400, and it never replies with success and a result
\* that is null or empty.
C23_FailureIs400 ==
    StrategyReplied =>
        /\ GenerationFailed => reply.status = 400
        /\ reply.status = 200 =>
              /\ reply.body.kind = "text"
              /\ reply.body.text # << >>

\* the result is one that is to be refused: a text that holds one of the
\* three phrases, or a dict with the key 'error'
ToBeRefused(r) ==
    \/ /\ r.kind = "text"
       /\ \E phrase \in {"An error occurred", "Invalid", "Could not retrieve"} :
             \E i \in DOMAIN r.text : r.text[i] = phrase
    \/ r.kind = "error_dict"

\* C24: an endpoint that hands the result of an analyzer method to
\* handle_analyzer_response replies HTTP 400 for every text that holds
\* 'An error occurred', 'Invalid' or 'Could not retrieve' (the analyzer's own
\* 'Invalid company name', 'Invalid stock name', 'Invalid lookback period'
\* messages among them) and for every dict with the key 'error', and replies
\* with the result itself, unchanged, for every other result.
C24_HandlerRefusals ==
    (pc = "responded" /\ entry \in {"api", "api_other"} /\ reply.status # 422) =>
        IF ToBeRefused(analyzer_result)
        THEN reply.status = 400
        ELSE reply = [status |-> 200, body |-> analyzer_result]

\* strategy() was given a ticker that is no string or is blank, or a
\* timeframe that is none of the three
BadStrategyArguments ==
    \/ ~argument.ticker.isStr
    \/ argument.ticker.text \in {"", " "}
    \/ argument.timeframe \notin {"intraday", "weekly", "monthly"}

\* C25: FinancialSonarAnalyzer.strategy, given a ticker that is no string or
\* is blank, or a timeframe other than intraday, weekly, monthly, returns a
\* dict with the key 'error' and has built no generator: generate_strategy
\* was not entered, no GET was sent and no LLM call made.  When the
\* generation raises, strategy() returns a dict with the key 'error' that
\* tells of the error; no exception reaches its caller.
C25_StrategyErrors ==
    (entry = "strategy" /\ pc = "finished") =>
        /\ analyzer_result.kind # "raised"
        /\ BadStrategyArguments =>
              /\ analyzer_result.kind = "error_dict"
              /\ analyzer_result.text[1] = "Invalid"
              /\ httpCalls = 0
              /\ llmCalls = 0
              /\ request = NoParams
              /\ fetched = NotFetched
              /\ result = NoResult
        /\ result.kind = "raised" =>
              /\ analyzer_result.kind = "error_dict"
              /\ analyzer_result.text[1] = "An error occurred"

C25_Witness ==
    /\ entry = "strategy"
    /\ pc = "finished"
    /\ llmCalls = 1
    /\ result.kind = "raised"
    /\ analyzer_result = ErrorDict(<< "An error occurred", "while generating strategy" >>)

=============================================================================
